---- MODULE Spec2Model ----
(***************************************************************************)
(* Static file server with a Content-Type charset override                 *)
(* (src/New folder/server.py).                                             *)
(*                                                                         *)
(* The module script binds a socketserver.TCPServer on PORT, prints one    *)
(* status line and serves forever.  TCPServer handles one connection at a  *)
(* time: a CustomHandler object is created per accepted connection, runs   *)
(* to completion and is discarded.  CustomHandler.send_header rewrites the *)
(* value of text Content-Type headers and hands (keyword, value) to the    *)
(* base class.                                                             *)
(*                                                                         *)
(* Text is modelled by TLA+ strings; TLC evaluates Len, SubSeq, Head, Tail *)
(* and \o on them character by character.                                  *)
(***************************************************************************)
EXTENDS Integers, Sequences, FiniteSets, TLC

VARIABLES
    pc,        \* position of the module script: "L17", "L18", "L19", "exit"
    httpd,     \* the listening socket: "none", "bound", "failed"
    stdout,    \* lines printed so far
    nconn,     \* connections accepted so far (the current one included)
    hpc,       \* the handler: "none", "idle", "L9" (in send_header), "L12"
    keyword,   \* send_header's parameter keyword while a call is running
    value,     \* send_header's parameter/local value while a call is running
    calls,     \* history: every send_header call, [conn, keyword, value]
    emitted    \* history: every super().send_header call, [conn, keyword, value]

vars == <<pc, httpd, stdout, nconn, hpc, keyword, value, calls, emitted>>

(***************************************************************************)
(* Bounds of the model.                                                    *)
(***************************************************************************)
MaxConns == 2
MaxCalls == 3

(***************************************************************************)
(* Python string primitives used by the source.                            *)
(***************************************************************************)

\* str.lower() on one ASCII character.
LowerChar(c) ==
    CASE c = "A" -> "a" [] c = "B" -> "b" [] c = "C" -> "c" [] c = "D" -> "d"
      [] c = "E" -> "e" [] c = "F" -> "f" [] c = "G" -> "g" [] c = "H" -> "h"
      [] c = "I" -> "i" [] c = "J" -> "j" [] c = "K" -> "k" [] c = "L" -> "l"
      [] c = "M" -> "m" [] c = "N" -> "n" [] c = "O" -> "o" [] c = "P" -> "p"
      [] c = "Q" -> "q" [] c = "R" -> "r" [] c = "S" -> "s" [] c = "T" -> "t"
      [] c = "U" -> "u" [] c = "V" -> "v" [] c = "W" -> "w" [] c = "X" -> "x"
      [] c = "Y" -> "y" [] c = "Z" -> "z" [] OTHER -> c

\* keyword.lower()
RECURSIVE lower(_)
lower(s) == IF s = "" THEN "" ELSE LowerChar(Head(s)) \o lower(Tail(s))

\* value.startswith(prefix)
startswith(s, prefix) ==
    /\ Len(s) >= Len(prefix)
    /\ SubSeq(s, 1, Len(prefix)) = prefix

\* sub in s
contains(s, sub) ==
    \E i \in 1..(Len(s) - Len(sub) + 1) : SubSeq(s, i, i + Len(sub) - 1) = sub

\* One decimal digit as text.
Digit(d) == SubSeq("0123456789", d + 1, d + 1)

\* f"{n}" for a non-negative integer.
RECURSIVE str(_)
str(n) == IF n < 10 THEN Digit(n) ELSE str(n \div 10) \o Digit(n % 10)

(***************************************************************************)
(* Faulty variants of send_header's rewrite, used to show that the         *)
(* properties below depend on each part of lines 9-11.                     *)
(***************************************************************************)

\* The appended text lacks the separating space.
send_header_value_NoSeparator(k, v) ==
    IF lower(k) = "content-type" /\ startswith(v, "text/")
    THEN IF ~ contains(v, "charset=") THEN v \o ";charset=utf-8" ELSE v
    ELSE v

\* Line 10 is missing: the charset is appended to every text value.
send_header_value_NoCharsetCheck(k, v) ==
    IF lower(k) = "content-type" /\ startswith(v, "text/")
    THEN v \o "; charset=utf-8"
    ELSE v

\* The startswith test of line 9 is missing.
send_header_value_NoPrefixCheck(k, v) ==
    IF lower(k) = "content-type"
    THEN IF ~ contains(v, "charset=") THEN v \o "; charset=utf-8" ELSE v
    ELSE v

\* The header-name test of line 9 is missing.
send_header_value_NoNameCheck(k, v) ==
    IF startswith(v, "text/")
    THEN IF ~ contains(v, "charset=") THEN v \o "; charset=utf-8" ELSE v
    ELSE v

\* The header name is compared without .lower().
send_header_value_NoLower(k, v) ==
    IF k = "content-type" /\ startswith(v, "text/")
    THEN IF ~ contains(v, "charset=") THEN v \o "; charset=utf-8" ELSE v
    ELSE v

\* The value is case-folded before both tests.
send_header_value_CaseFolded(k, v) ==
    IF lower(k) = "content-type" /\ startswith(lower(v), "text/")
    THEN IF ~ contains(lower(v), "charset=") THEN v \o "; charset=utf-8" ELSE v
    ELSE v

\* A process-wide flag remembers that a charset was appended once and the
\* rewrite is skipped from then on.
send_header_value_Cached(k, v) ==
    IF /\ lower(k) = "content-type" /\ startswith(v, "text/")
       /\ ~ \E i \in 1..Len(emitted) : emitted[i].value # calls[i].value
    THEN IF ~ contains(v, "charset=") THEN v \o "; charset=utf-8" ELSE v
    ELSE v

(***************************************************************************)
(* CustomHandler.send_header, lines 9-11: the value handed to the base     *)
(* class for a call send_header(k, v).                                     *)
(***************************************************************************)
send_header_value(k, v) ==
    IF lower(k) = "content-type" /\ startswith(v, "text/")
    THEN IF ~ contains(v, "charset=") THEN v \o "; charset=utf-8" ELSE v
    ELSE v

(***************************************************************************)
(* Module script.                                                          *)
(***************************************************************************)
PORT == 8000

\* f"Serving at port {PORT}"
StatusLine == "Serving at port " \o str(PORT)


(***************************************************************************)
(* Inputs.  Header names and values a caller of send_header can pass.      *)
(* A value is a media type followed by a parameter string.                 *)
(***************************************************************************)
Names ==
    { "Content-Type", "content-type", "CONTENT-TYPE", "Content-type",
      "cOnTeNt-TyPe", "Content-Length", "X-Content-Type", "Content-Typ",
      "Content_Type", "Last-Modified", "" }

MediaTypes ==
    { "text/html", "text/plain", "text/", "text", "Text/html", "TEXT/PLAIN",
      " text/html", "application/json", "image/png", "application/text/x", "" }

ParamStrings ==
    { "", "; charset=utf-8", "; charset=iso-8859-1", ";charset=utf-8",
      "; Charset=utf-8", "; CHARSET=utf-8", "; xcharset=1",
      "; title=charset=1", "; charset", "; boundary=x" }

Values == { t \o p : t \in MediaTypes, p \in ParamStrings }

\* The headers the handlers of the running server write.
ReqNames == { "Content-type", "Content-Type", "Content-Length" }

ReqValues ==
    { "text/html", "text/html; charset=utf-8", "application/json", "1024" }

(***************************************************************************)
(* Module script, lines 17-19.                                             *)
(***************************************************************************)

\* Line 17: TCPServer(("", PORT), CustomHandler) binds and listens.
Bind ==
    /\ pc = "L17"
    /\ httpd' = "bound"
    /\ pc' = "L18"
    /\ UNCHANGED <<stdout, nconn, hpc, keyword, value, calls, emitted>>

\* Faulty variant: the bind error is swallowed and the script goes on.
BindFail_Swallowed ==
    /\ pc = "L17"
    /\ httpd' = "failed"
    /\ pc' = "L18"
    /\ UNCHANGED <<stdout, nconn, hpc, keyword, value, calls, emitted>>

\* Line 17: the bind raises OSError (address in use); nothing catches it, so
\* the with-body is never entered and the process ends.
BindFail ==
    /\ pc = "L17"
    /\ httpd' = "failed"
    /\ pc' = "exit"
    /\ UNCHANGED <<stdout, nconn, hpc, keyword, value, calls, emitted>>

\* Line 18: print(f"Serving at port {PORT}")
PrintStatus ==
    /\ pc = "L18"
    /\ stdout' = Append(stdout, StatusLine)
    /\ pc' = "L19"
    /\ UNCHANGED <<httpd, nconn, hpc, keyword, value, calls, emitted>>

\* Line 19: serve_forever() accepts the next connection and creates its
\* CustomHandler; TCPServer serves one connection at a time.
Accept ==
    /\ pc = "L19"
    /\ hpc = "none"
    /\ nconn < MaxConns
    /\ nconn' = nconn + 1
    /\ hpc' = "idle"
    /\ UNCHANGED <<pc, httpd, stdout, keyword, value, calls, emitted>>

\* The handler has finished its request; serve_forever() goes on.
Finish ==
    /\ pc = "L19"
    /\ hpc = "idle"
    /\ hpc' = "none"
    /\ UNCHANGED <<pc, httpd, stdout, nconn, keyword, value, calls, emitted>>

(***************************************************************************)
(* CustomHandler.send_header(keyword, value), lines 7-12.                  *)
(***************************************************************************)

\* Line 7: the serving layer calls send_header(k, v) on the handler.
Call ==
    /\ hpc = "idle"
    /\ Len(calls) < MaxCalls
    /\ \E k \in ReqNames, v \in ReqValues :
          /\ keyword' = k
          /\ value' = v
          /\ calls' = Append(calls, [conn |-> nconn, keyword |-> k, value |-> v])
    /\ hpc' = "L9"
    /\ UNCHANGED <<pc, httpd, stdout, nconn, emitted>>

\* Lines 9-11: the conditional rewrite of the local value.
Rewrite ==
    /\ hpc = "L9"
    /\ value' = send_header_value(keyword, value)
    /\ hpc' = "L12"
    /\ UNCHANGED <<pc, httpd, stdout, nconn, keyword, calls, emitted>>

\* Faulty variant: line 12 is indented under the if of line 9, so only text
\* Content-Type headers reach the base class.
SuperSendHeader_InsideIf ==
    /\ hpc = "L12"
    /\ emitted' = IF lower(keyword) = "content-type" /\ startswith(value, "text/")
                  THEN Append(emitted,
                         [conn |-> nconn, keyword |-> keyword, value |-> value])
                  ELSE emitted
    /\ hpc' = "idle"
    /\ keyword' = ""
    /\ value' = ""
    /\ UNCHANGED <<pc, httpd, stdout, nconn, calls>>

\* Line 12: super().send_header(keyword, value), then the call returns.
SuperSendHeader ==
    /\ hpc = "L12"
    /\ emitted' = Append(emitted,
                    [conn |-> nconn, keyword |-> keyword, value |-> value])
    /\ hpc' = "idle"
    /\ keyword' = ""
    /\ value' = ""
    /\ UNCHANGED <<pc, httpd, stdout, nconn, calls>>

(***************************************************************************)
(* Specifications.                                                         *)
(***************************************************************************)

\* The process right after the class and PORT are defined (line 15).
Init ==
    /\ pc = "L17"
    /\ httpd = "none"
    /\ stdout = <<>>
    /\ nconn = 0
    /\ hpc = "none"
    /\ keyword = ""
    /\ value = ""
    /\ calls = <<>>
    /\ emitted = <<>>

Next ==
    \/ Bind
    \/ BindFail
    \/ PrintStatus
    \/ Accept
    \/ Call
    \/ Rewrite
    \/ SuperSendHeader
    \/ Finish

Spec == Init /\ [][Next]_vars

\* The header interceptor on its own: a serving process whose first handler
\* has just been called with send_header(k, v), for every k and v of the
\* input sets.
InitFn ==
    /\ pc = "L19"
    /\ httpd = "bound"
    /\ stdout = <<StatusLine>>
    /\ nconn = 1
    /\ hpc = "L9"
    /\ \E k \in Names, v \in Values :
          /\ keyword = k
          /\ value = v
          /\ calls = <<[conn |-> 1, keyword |-> k, value |-> v]>>
    /\ emitted = <<>>

NextFn ==
    \/ Rewrite
    \/ SuperSendHeader

SpecFn == InitFn /\ [][NextFn]_vars

(***************************************************************************)
(* Vocabulary of the properties.  These are stated without the operators   *)
(* the model of send_header is built from, except for Python's exact       *)
(* startswith and in, which the properties name themselves.                *)
(***************************************************************************)
UpperLetters == "ABCDEFGHIJKLMNOPQRSTUVWXYZ"
LowerLetters == "abcdefghijklmnopqrstuvwxyz"

\* Two characters that are equal or the two cases of one ASCII letter.
SameCharNoCase(a, b) ==
    \/ a = b
    \/ \E n \in 1..Len(UpperLetters) :
          {a, b} = {SubSeq(UpperLetters, n, n), SubSeq(LowerLetters, n, n)}

EqualNoCase(s, t) ==
    /\ Len(s) = Len(t)
    /\ \A n \in 1..Len(s) : SameCharNoCase(SubSeq(s, n, n), SubSeq(t, n, n))

StartsWithNoCase(s, prefix) ==
    /\ Len(s) >= Len(prefix)
    /\ EqualNoCase(SubSeq(s, 1, Len(prefix)), prefix)

ContainsNoCase(s, sub) ==
    \E n \in 1..(Len(s) - Len(sub) + 1) :
        EqualNoCase(SubSeq(s, n, n + Len(sub) - 1), sub)

\* The header name is Content-Type in some casing.
IsContentTypeName(k) == EqualNoCase(k, "Content-Type")

RECURSIVE LStrip(_)
LStrip(s) == IF s # "" /\ Head(s) = " " THEN LStrip(Tail(s)) ELSE s

\* The value has a parameter (a ;-separated name=value item after the media
\* type) whose name is exactly charset.
HasCharsetParameter(v) ==
    \E n \in 1..Len(v) :
        /\ SubSeq(v, n, n) = ";"
        /\ startswith(LStrip(SubSeq(v, n + 1, Len(v))), "charset=")

Suffix == "; charset=utf-8"

\* The completed calls: call n came in as calls[n] and went out as emitted[n].
Completed == 1..Len(emitted)

TextWithoutCharset(v) == startswith(v, "text/") /\ ~ contains(v, "charset=")

(***************************************************************************)
(* Properties.                                                             *)
(***************************************************************************)

\* C1: a Content-Type value that starts with "text/" and contains no
\* "charset=" is handed to the base class as the value followed by
\* "; charset=utf-8", and nothing else.
C1_TextGetsCharset ==
    \A n \in Completed :
        (IsContentTypeName(calls[n].keyword) /\ TextWithoutCharset(calls[n].value))
            => emitted[n].value = calls[n].value \o "; charset=utf-8"

C1_Witness ==
    \E n \in Completed :
        /\ calls[n].keyword = "Content-Type"
        /\ calls[n].value = "text/html"
        /\ emitted[n].value = "text/html; charset=utf-8"

\* C2: a Content-Type value that contains "charset=" anywhere is handed on
\* unchanged, whether or not it starts with "text/".
C2_CharsetKept ==
    \A n \in Completed :
        (IsContentTypeName(calls[n].keyword) /\ contains(calls[n].value, "charset="))
            => emitted[n].value = calls[n].value

C2_Witness ==
    \E n \in Completed :
        /\ IsContentTypeName(calls[n].keyword)
        /\ startswith(calls[n].value, "text/")
        /\ contains(calls[n].value, "charset=")
        /\ emitted[n].value = calls[n].value

\* C3: a Content-Type value that does not start with "text/" is handed on
\* unchanged, also when it contains no "charset=".
C3_NonTextKept ==
    \A n \in Completed :
        (IsContentTypeName(calls[n].keyword) /\ ~ startswith(calls[n].value, "text/"))
            => emitted[n].value = calls[n].value

C3_Witness ==
    \E n \in Completed :
        /\ IsContentTypeName(calls[n].keyword)
        /\ calls[n].value = "application/json"
        /\ emitted[n].value = "application/json"

\* C4: a header whose name is not Content-Type in any casing is handed on
\* with its name and value unchanged, whatever the value.
C4_OtherHeadersKept ==
    \A n \in Completed :
        ~ IsContentTypeName(calls[n].keyword)
            => /\ emitted[n].keyword = calls[n].keyword
               /\ emitted[n].value = calls[n].value

C4_Witness ==
    \E n \in Completed :
        /\ ~ IsContentTypeName(calls[n].keyword)
        /\ TextWithoutCharset(calls[n].value)
        /\ emitted[n].keyword = calls[n].keyword
        /\ emitted[n].value = calls[n].value

\* C5: the header-name test ignores case: under every casing of Content-Type
\* the value is treated exactly as under the canonical spelling, so a text
\* value without "charset=" gets "; charset=utf-8" appended.
C5_NameCaseInsensitive ==
    \A n \in Completed :
        IsContentTypeName(calls[n].keyword)
            => /\ emitted[n].value = send_header_value("Content-Type", calls[n].value)
               /\ TextWithoutCharset(calls[n].value)
                    => emitted[n].value = calls[n].value \o Suffix

C5_Witness ==
    \E n \in Completed :
        /\ calls[n].keyword \in {"content-type", "CONTENT-TYPE", "Content-type"}
        /\ TextWithoutCharset(calls[n].value)
        /\ emitted[n].value = calls[n].value \o Suffix

\* C6: every text Content-Type value without a parameter named exactly
\* charset is handed on with "; charset=utf-8" appended, so every text
\* Content-Type value handed on carries a charset parameter.
C6_EveryTextHasCharsetParameter ==
    \A n \in Completed :
        (/\ IsContentTypeName(calls[n].keyword)
         /\ startswith(calls[n].value, "text/")
         /\ ~ HasCharsetParameter(calls[n].value))
            => /\ emitted[n].value = calls[n].value \o Suffix
               /\ HasCharsetParameter(emitted[n].value)

\* C7: the status line is printed once, after the socket is bound and
\* before any connection is accepted; a failed bind ends the process with
\* nothing printed and the serving loop never entered.
C7_Startup ==
    /\ stdout \in {<<>>, <<"Serving at port 8000">>}
    /\ stdout # <<>> => httpd = "bound"
    /\ pc = "L19" => stdout # <<>>
    /\ (nconn > 0 \/ hpc # "none" \/ calls # <<>> \/ emitted # <<>>)
          => (pc = "L19" /\ stdout # <<>> /\ httpd = "bound")
    /\ httpd = "failed"
          => (pc = "exit" /\ stdout = <<>> /\ nconn = 0 /\ hpc = "none")

C7_Witness ==
    /\ httpd = "failed"
    /\ pc = "exit"
    /\ stdout = <<>>

\* C8: both value tests are case-sensitive: a text value whose only charset
\* parameter is spelled in another case still gets "; charset=utf-8"
\* appended, and a value whose "text/" prefix is spelled in another case is
\* handed on unchanged.
C8_ValueTestsCaseSensitive ==
    \A n \in Completed :
        IsContentTypeName(calls[n].keyword)
            => /\ (/\ TextWithoutCharset(calls[n].value)
                   /\ ContainsNoCase(calls[n].value, "charset="))
                     => emitted[n].value = calls[n].value \o Suffix
               /\ (/\ ~ startswith(calls[n].value, "text/")
                   /\ StartsWithNoCase(calls[n].value, "text/"))
                     => emitted[n].value = calls[n].value

C8_Witness ==
    \E n \in Completed :
        /\ IsContentTypeName(calls[n].keyword)
        /\ calls[n].value = "text/html; Charset=utf-8"
        /\ emitted[n].value = "text/html; Charset=utf-8; charset=utf-8"

\* C9: every send_header call hands exactly one header to the base class
\* before it returns, in call order, under the name it was called with.
C9_OneEmissionPerCall ==
    /\ Len(emitted) = Len(calls) - (IF hpc \in {"L9", "L12"} THEN 1 ELSE 0)
    /\ \A n \in Completed :
          /\ emitted[n].conn = calls[n].conn
          /\ emitted[n].keyword = calls[n].keyword
          /\ emitted[n].value \in {calls[n].value, calls[n].value \o Suffix}

C9_Witness ==
    /\ hpc = "idle"
    /\ Len(emitted) = 3
    /\ \E n \in Completed :
          /\ emitted[n].keyword = "Content-Type"
          /\ emitted[n].value # calls[n].value
    /\ \E n \in Completed : emitted[n].keyword = "Content-Length"

\* Equal calls gave equal values, across the whole history and across
\* connections.
SameCallSameValue ==
    \A n, m \in Completed :
        (/\ calls[n].keyword = calls[m].keyword
         /\ calls[n].value = calls[m].value)
            => emitted[n].value = emitted[m].value

\* A step of a running send_header call touches nothing of the process or
\* of the earlier history: it only adds the record of its own connection.
CallTouchesOnlyItsRecord ==
    hpc \in {"L9", "L12"}
        => /\ UNCHANGED <<pc, httpd, stdout, nconn, calls>>
           /\ Len(emitted') \in {Len(emitted), Len(emitted) + 1}
           /\ SubSeq(emitted', 1, Len(emitted)) = emitted
           /\ \A n \in (Len(emitted) + 1)..Len(emitted') : emitted'[n].conn = nconn

\* C10: the value handed on depends on the call's name and value alone:
\* equal calls give equal values, whatever was written before and on
\* whichever connection, and a call reads and writes no state shared
\* between connections.
C10_Stateless == [] SameCallSameValue /\ [][CallTouchesOnlyItsRecord]_vars

C10_Witness ==
    \E n, m \in Completed :
        /\ n + 1 < m
        /\ calls[n].conn # calls[m].conn
        /\ calls[n].keyword = calls[m].keyword
        /\ calls[n].value = calls[m].value
        /\ emitted[m].value # calls[m].value

====
